---- MODULE Spec2Model ----
(***************************************************************************)
(* prompt-mcp: a line-oriented JSON-RPC dispatcher (MCPServer.Start) that  *)
(* answers protocol requests on stdout and acquires a human's answer from  *)
(* the controlling terminal (getUserInputFromTTY) or from an ephemeral     *)
(* local web form (getUserInputFromWeb, WebInputHandler).                  *)
(***************************************************************************)
EXTENDS Integers, Sequences, FiniteSets, TLC

\* ---------------------------------------------------------------- bounds
MaxLines == 2      \* lines the transport delivers in one run
MaxSubmit == 2     \* HTTP submissions made in one run

\* ------------------------------------------------------------ JSON values
\* A JSON value as it stands on the wire.  A number is the integer
\* hi * Base + lo, kept in two limbs of 30 bits so that values beyond 2^53 fit.
Absent == [t |-> "absent"]

Null == [t |-> "null"]

Str(s) == [t |-> "str", s |-> s]

Num(hi, lo) == [t |-> "num", hi |-> hi, lo |-> lo]

Obj(name, arguments, prompt, timeout, method) ==
  [t |-> "obj", name |-> name, arguments |-> arguments, prompt |-> prompt,
   timeout |-> timeout, method |-> method]

\* 2^k for the few exponents the number model needs
RECURSIVE Pow2(_)
Pow2(k) == IF k = 0 THEN 1 ELSE 2 * Pow2(k - 1)

Base == Pow2(30)

\* bits by which hi * Base + lo exceeds the 53-bit mantissa of a float64
RECURSIVE ExcessBits(_, _)
ExcessBits(hi, k) == IF hi < Pow2(23 + k) THEN k ELSE ExcessBits(hi, k + 1)

\* encoding/json decodes a JSON number held in an interface{} as float64:
\* the nearest representable value, ties to the even mantissa.
ToFloat64(n) ==
  LET k    == ExcessBits(n.hi, 0)
      unit == Pow2(k)
      q    == n.lo \div unit
      r    == n.lo % unit
      up   == \/ 2 * r > unit
              \/ 2 * r = unit /\ q % 2 = 1
      lo2  == (IF up THEN q + 1 ELSE q) * unit
  IN  IF k = 0 THEN n
      ELSE IF lo2 = Base THEN Num(n.hi + 1, 0) ELSE Num(n.hi, lo2)

\* Go values held in an interface{} after decoding
Nil == [g |-> "nil"]

\* json.Unmarshal into a field of type interface{}: an absent key and null
\* both leave nil, a number becomes a float64, a string stays a string and
\* an object becomes a map holding its members.
DecodeAny(v) ==
  CASE v.t = "absent" -> Nil
    [] v.t = "null"   -> Nil
    [] v.t = "num"    -> [g |-> "float64", hi |-> ToFloat64(v).hi, lo |-> ToFloat64(v).lo]
    [] v.t = "str"    -> [g |-> "string", s |-> v.s]
    [] OTHER          -> [g |-> "map", m |-> v]

\* json.Marshal of an interface{}: nil is null, an integral float64 below
\* 1e21 is printed with all its digits, a map is printed as an object.
MarshalAny(x) ==
  CASE x.g = "nil"     -> Null
    [] x.g = "float64" -> Num(x.hi, x.lo)
    [] x.g = "string"  -> Str(x.s)
    [] OTHER           -> x.m

\* ------------------------------------------------------------------ text
\* A text is a sequence of characters; " " stands for any white space.
RECURSIVE TrimLeft(_)
TrimLeft(s) == IF s # <<>> /\ Head(s) = " " THEN TrimLeft(Tail(s)) ELSE s

RECURSIVE TrimRight(_)
TrimRight(s) ==
  IF s # <<>> /\ s[Len(s)] = " " THEN TrimRight(SubSeq(s, 1, Len(s) - 1)) ELSE s

TrimSpace(s) == TrimRight(TrimLeft(s))

\* --------------------------------------------------------------- codec
\* A line of the transport is either raw characters that are no JSON value
\* (kind "raw") or a JSON object with the members id, method and params
\* (kind "json").
\* MCPRequest as json.Unmarshal leaves it.  A line that is not valid JSON
\* is rejected before any field is stored; a member of the wrong type is
\* reported after the other members have been stored.
ZeroRequest == [ID |-> Nil, Method |-> "", Params |-> Nil]

UnmarshalRequest(l) ==
  IF l.kind = "raw" THEN [err |-> TRUE, req |-> ZeroRequest]
  ELSE [err |-> l.method.t \notin {"absent", "null", "str"},
        req |-> [ID     |-> DecodeAny(l.id),
                 Method |-> IF l.method.t = "str" THEN l.method.s ELSE "",
                 Params |-> DecodeAny(l.params)]]

\* json.Unmarshal of the params into struct{Name string; Arguments map}
UnmarshalToolCall(p) ==
  IF p.t \in {"absent", "null"} THEN [err |-> FALSE, Name |-> "", Arguments |-> Absent]
  ELSE IF p.t # "obj" THEN [err |-> TRUE, Name |-> "", Arguments |-> Absent]
  ELSE [err       |-> \/ p.name.t \notin {"absent", "null", "str"}
                      \/ p.arguments.t \notin {"absent", "null", "obj"},
        Name      |-> IF p.name.t = "str" THEN p.name.s ELSE "",
        Arguments |-> IF p.arguments.t = "obj" THEN p.arguments ELSE Absent]

\* json.Unmarshal of the params into UserInputRequest{Prompt string; Timeout int}
UnmarshalUserInputRequest(p) ==
  IF p.t \in {"absent", "null"} THEN [err |-> FALSE, Prompt |-> ""]
  ELSE IF p.t # "obj" THEN [err |-> TRUE, Prompt |-> ""]
  ELSE [err    |-> \/ p.prompt.t \notin {"absent", "null", "str"}
                   \/ p.timeout.t \notin {"absent", "null", "num"},
        Prompt |-> IF p.prompt.t = "str" THEN p.prompt.s ELSE ""]

\* the type assertion with its ok result ignored: a missing or non-string
\* prompt becomes the empty prompt
PromptArg_unchecked(args) ==
  IF args.t = "obj" /\ args.prompt.t = "str"
  THEN [ok |-> TRUE, prompt |-> args.prompt.s]
  ELSE [ok |-> TRUE, prompt |-> ""]

\* args["prompt"].(string) on the decoded arguments map (nil when absent)
PromptArg(args) ==
  IF args.t = "obj" /\ args.prompt.t = "str"
  THEN [ok |-> TRUE, prompt |-> args.prompt.s]
  ELSE [ok |-> FALSE, prompt |-> ""]

\* the input method defaulting to the browser when args["method"] is
\* missing or no string
MethodArg_webDefault(args) ==
  IF args.t = "obj" /\ args.method.t = "str" THEN args.method.s ELSE "web"

\* the input method: "tty" unless args["method"] exists and is a string
MethodArg(args) ==
  IF args.t = "obj" /\ args.method.t = "str" THEN args.method.s ELSE "tty"

\* ------------------------------------------------------------- responses
ErrorObject(code, message) == [code |-> code, message |-> message]

\* MCPResponse with Result set; Error stays nil and is omitted, and so
\* would a nil Result be (omitempty)
sendResponse(o, id, result) ==
  Append(o, [id |-> MarshalAny(id),
             result |-> IF result = Nil THEN Absent ELSE result,
             error |-> Absent])

\* sendError filling Result with an empty object next to the error
sendError_withResult(o, id, code, message) ==
  Append(o, [id |-> MarshalAny(id), result |-> [empty |-> TRUE],
             error |-> ErrorObject(code, message)])

\* MCPResponse with Error set; Result stays nil and is omitted
sendError(o, id, code, message) ==
  Append(o, [id |-> MarshalAny(id), result |-> Absent,
             error |-> ErrorObject(code, message)])

InitializeResult ==
  [protocolVersion |-> "2024-11-05", listChanged |-> FALSE,
   name |-> "prompt-mcp", version |-> "1.0.0"]

CapabilitiesResult == [capabilities |-> [tools |-> [listChanged |-> FALSE]]]

ToolsListResult ==
  [tools |-> << [name |-> "user_input",
                 properties |-> {"prompt", "timeout", "method"},
                 required |-> <<"prompt">>] >>]

ToolResult(response) ==
  [content |-> << [type |-> "text", text |-> response] >>, isError |-> FALSE]

UserInputResult(response, success) == [response |-> response, success |-> success]

\* -------------------------------------------------------------- handlers
\* A handler yields the outbound channel as it leaves it and the place the
\* dispatcher goes to next: back to scanner.Scan, or into an acquisition.
handleInitialize(o, r) ==
  [out |-> sendResponse(o, r.ID, InitializeResult), pc |-> "scan"]

handleCapabilities(o, r) ==
  [out |-> sendResponse(o, r.ID, CapabilitiesResult), pc |-> "scan"]

\* handleToolsList with the required list of the schema left out
handleToolsList_noRequired(o, r) ==
  [out |-> sendResponse(o, r.ID, [tools |-> << [name |-> "user_input",
                                               properties |-> {"prompt", "timeout", "method"},
                                               required |-> <<>>] >>]),
   pc |-> "scan"]

handleToolsList(o, r) ==
  [out |-> sendResponse(o, r.ID, ToolsListResult), pc |-> "scan"]

\* handleUserInputTool without the return after the error for the prompt:
\* the backend is called with the empty prompt
handleUserInputTool_noReturn(o, r, args) ==
  [out |-> IF ~PromptArg(args).ok
           THEN sendError(o, r.ID, -32602, "Missing or invalid prompt parameter")
           ELSE o,
   pc |-> IF MethodArg(args) = "web" THEN "web_start" ELSE "tty_open"]

\* up to the call of the selected backend
handleUserInputTool(o, r, args) ==
  IF ~PromptArg(args).ok
  THEN [out |-> sendError(o, r.ID, -32602, "Missing or invalid prompt parameter"),
        pc |-> "scan"]
  ELSE [out |-> o, pc |-> IF MethodArg(args) = "web" THEN "web_start" ELSE "tty_open"]

\* handleToolCall answering an unknown tool as invalid params
handleToolCall_unknownAsInvalid(o, r) ==
  LET toolCall == UnmarshalToolCall(MarshalAny(r.Params))
  IN  IF toolCall.err
      THEN [out |-> sendError(o, r.ID, -32602, "Invalid params"), pc |-> "scan"]
      ELSE IF toolCall.Name = "user_input"
           THEN handleUserInputTool(o, r, toolCall.Arguments)
           ELSE [out |-> sendError(o, r.ID, -32602, "Unknown tool"), pc |-> "scan"]

\* json.Marshal of a decoded value cannot fail, so only the second
\* "Invalid params" branch is reachable
handleToolCall(o, r) ==
  LET toolCall == UnmarshalToolCall(MarshalAny(r.Params))
  IN  IF toolCall.err
      THEN [out |-> sendError(o, r.ID, -32602, "Invalid params"), pc |-> "scan"]
      ELSE IF toolCall.Name = "user_input"
           THEN handleUserInputTool(o, r, toolCall.Arguments)
           ELSE [out |-> sendError(o, r.ID, -32601, "Unknown tool"), pc |-> "scan"]

\* up to the call of getUserInputFromTTY
handleUserInput(o, r) ==
  IF UnmarshalUserInputRequest(MarshalAny(r.Params)).err
  THEN [out |-> sendError(o, r.ID, -32602, "Invalid params"), pc |-> "scan"]
  ELSE [out |-> o, pc |-> "tty_open"]

\* the prompt handed to the backend by the handler of request r
PromptOf(r) ==
  IF r.Method = "tools/call"
  THEN PromptArg(UnmarshalToolCall(MarshalAny(r.Params)).Arguments).prompt
  ELSE UnmarshalUserInputRequest(MarshalAny(r.Params)).Prompt

\* handleUserInputTool reporting a backend failure inside a result, with
\* the cause as the text and isError set
toolAnswer_asResult(o, r, response, err) ==
  IF err # ""
  THEN sendResponse(o, r.ID, [content |-> << [type |-> "text", text |-> <<>>] >>,
                              isError |-> TRUE])
  ELSE sendResponse(o, r.ID, ToolResult(response))

\* handleUserInputTool after the backend returned (response, err)
toolAnswer(o, r, response, err) ==
  IF err # ""
  THEN sendError(o, r.ID, -32603, "Failed to get user input: " \o err)
  ELSE sendResponse(o, r.ID, ToolResult(response))

\* handleUserInput reporting a backend failure the way the tool path does
legacyAnswer_asError(o, r, response, err) ==
  IF err # ""
  THEN sendError(o, r.ID, -32603, "Failed to get user input: " \o err)
  ELSE sendResponse(o, r.ID, UserInputResult(response, TRUE))

\* handleUserInput after getUserInputFromTTY returned (response, err)
legacyAnswer(o, r, response, err) ==
  IF err # ""
  THEN sendResponse(o, r.ID, UserInputResult(<<>>, FALSE))
  ELSE sendResponse(o, r.ID, UserInputResult(response, TRUE))

\* the handler that called the backend writes the answer
answer(o, r, response, err) ==
  IF r.Method = "tools/call" THEN toolAnswer(o, r, response, err)
  ELSE legacyAnswer(o, r, response, err)

\* the switch without its default case: an unknown method is ignored
dispatch_noDefault(o, r) ==
  CASE r.Method = "initialize"                -> handleInitialize(o, r)
    [] r.Method = "capabilities/list"         -> handleCapabilities(o, r)
    [] r.Method = "tools/list"                -> handleToolsList(o, r)
    [] r.Method = "tools/call"                -> handleToolCall(o, r)
    [] r.Method = "user_input"                -> handleUserInput(o, r)
    [] OTHER -> [out |-> o, pc |-> "scan"]

\* the switch with notifications/initialized acknowledged by an empty
\* result, as a request would be
dispatch_ackNotification(o, r) ==
  CASE r.Method = "initialize"                -> handleInitialize(o, r)
    [] r.Method = "notifications/initialized" ->
         [out |-> sendResponse(o, r.ID, [ack |-> TRUE]), pc |-> "scan"]
    [] r.Method = "capabilities/list"         -> handleCapabilities(o, r)
    [] r.Method = "tools/list"                -> handleToolsList(o, r)
    [] r.Method = "tools/call"                -> handleToolCall(o, r)
    [] r.Method = "user_input"                -> handleUserInput(o, r)
    [] OTHER -> [out |-> sendError(o, r.ID, -32601, "Method not found"), pc |-> "scan"]

\* the switch on req.Method in Start; notifications/initialized continues
\* the loop without writing
dispatch(o, r) ==
  CASE r.Method = "initialize"                -> handleInitialize(o, r)
    [] r.Method = "notifications/initialized" -> [out |-> o, pc |-> "scan"]
    [] r.Method = "capabilities/list"         -> handleCapabilities(o, r)
    [] r.Method = "tools/list"                -> handleToolsList(o, r)
    [] r.Method = "tools/call"                -> handleToolCall(o, r)
    [] r.Method = "user_input"                -> handleUserInput(o, r)
    [] OTHER -> [out |-> sendError(o, r.ID, -32601, "Method not found"), pc |-> "scan"]

\* strings.TrimSpace(scanner.Text()) == ""; a line holding a JSON object is
\* never blank
IsBlank(l) == l.kind = "raw" /\ TrimSpace(l.chars) = <<>>

\* handleLine without the continue after the parse error: the zero request
\* falls through to the switch
handleLine_noContinue(o, l) ==
  LET u == UnmarshalRequest(l)
      e == IF u.err THEN sendError(o, u.req.ID, -32700, "Parse error") ELSE o
  IN  IF IsBlank(l) THEN [out |-> o, pc |-> "scan", req |-> ZeroRequest]
      ELSE [out |-> dispatch(e, u.req).out, pc |-> dispatch(e, u.req).pc,
            req |-> u.req]

\* one iteration of the loop body of Start on a line the scanner delivered
handleLine(o, l) ==
  LET u == UnmarshalRequest(l)
  IN  IF IsBlank(l) THEN [out |-> o, pc |-> "scan", req |-> ZeroRequest]
      ELSE IF u.err
           THEN [out |-> sendError(o, u.req.ID, -32700, "Parse error"),
                 pc |-> "scan", req |-> u.req]
           ELSE [out |-> dispatch(o, u.req).out, pc |-> dispatch(o, u.req).pc,
                 req |-> u.req]

\* ---------------------------------------------------------------- inputs
SmallId == Num(0, 7)

\* 2^53 + 1, the first integer a float64 cannot hold
BigId == Num(8388608, 1)

IDs == {Absent, Null, SmallId, Str("a"), BigId}

Req(id, method, params) ==
  [kind |-> "json", id |-> id, method |-> method, params |-> params]

Raw(chars) == [kind |-> "raw", chars |-> chars]

ArgsObj(prompt, method) == Obj(Absent, Absent, prompt, Absent, method)

ToolCallObj(name, arguments) == Obj(name, arguments, Absent, Absent, Absent)

LegacyObj(prompt, timeout) == Obj(Absent, Absent, prompt, timeout, Absent)

ThePrompt == Str("Proceed?")

ToolParams ==
  {Absent, Num(0, 1)}
  \cup {ToolCallObj(n, Absent) : n \in {Absent, Num(0, 1), Str("other"), Str("user_input")}}
  \cup {ToolCallObj(Str("user_input"), Str("x"))}
  \cup {ToolCallObj(Str("user_input"), ArgsObj(ThePrompt, m)) :
          m \in {Absent, Num(0, 1), Str("tty"), Str("web"), Str("other")}}
  \cup {ToolCallObj(Str("user_input"), ArgsObj(p, Str("web"))) : p \in {Absent, Num(0, 1)}}

LegacyParams ==
  {Absent, Str("x"), LegacyObj(Absent, Absent), LegacyObj(Num(0, 1), Absent),
   LegacyObj(ThePrompt, Absent), LegacyObj(ThePrompt, Num(0, 30)),
   LegacyObj(ThePrompt, Str("x"))}

PlainMethods == {"notifications/initialized", "capabilities/list", "tools/list", "foo"}

\* blank and undecodable lines; requests of every method with and without
\* an id, initialize with every kind of id; requests with no method or a
\* method of the wrong type; prompt requests with every shape of params
Lines ==
  {Raw(c) : c \in {<<" ">>, <<" ", "{">>}}
  \cup {Req(id, Str("initialize"), Absent) : id \in IDs}
  \cup {Req(id, Str(m), Absent) : id \in {Absent, SmallId}, m \in PlainMethods}
  \cup {Req(SmallId, Absent, Absent), Req(SmallId, Num(0, 1), Absent)}
  \cup {Req(SmallId, Str("tools/call"), p) : p \in ToolParams}
  \cup {Req(SmallId, Str("user_input"), p) : p \in LegacyParams}
  \cup {Req(Absent, Str("tools/call"), ToolCallObj(Str("user_input"), Absent)),
        Req(Absent, Str("tools/call"),
            ToolCallObj(Str("user_input"), ArgsObj(ThePrompt, Absent))),
        Req(Absent, Str("user_input"), LegacyObj(ThePrompt, Absent))}

\* what the human types at the terminal
TtyTexts == {<<>>, <<" ", "y", " ">>}

\* what the n-th HTTP request carries in its response field: nothing, or a
\* text no other request carries
WebTexts(n) == {<<>>, <<n>>}

\* ----------------------------------------------------------------- state
VARIABLES
  nread,      \* how many lines scanner.Scan has delivered so far
  line,       \* scanner.Text(): the line delivered last
  out,        \* the lines written to s.stdout since it was delivered, in order
  cancelled,  \* ctx.Done() is closed
  pc,         \* where the goroutine running Start stands
  req,        \* the local req of Start's current iteration
  ret,        \* what Start returned ("running" until it does)
  acq,        \* the backend the handler called and its locals response, err
  ttyShown,   \* the prompts written to /dev/tty since it was delivered
  sess,       \* the WebInputHandlers created so far, in order
  subs        \* the HTTP requests the listeners accepted, in order

vars == <<nread, line, out, cancelled, pc, req, ret, acq, ttyShown, sess, subs>>

\* the WebInputHandler of the acquisition in progress
cur == Len(sess)

\* no backend called; otherwise backend is "tty" or "web" and done tells
\* whether it has returned (response, err); tty is what the terminal's
\* scanner delivered ("none" as long as it was not read)
NoAcquisition ==
  [backend |-> "none", response |-> <<>>, err |-> "", done |-> FALSE, tty |-> "none"]

\* the backend entered when the handler leaves the dispatcher at place p
BackendAt(p) ==
  CASE p = "tty_open"  -> "tty"
    [] p = "web_start" -> "web"
    [] OTHER           -> "none"

Init ==
  /\ nread = 0 /\ line = Raw(<<>>)
  /\ out = <<>>
  /\ cancelled = FALSE
  /\ pc = "scan"
  /\ req = ZeroRequest
  /\ ret = "running"
  /\ acq = NoAcquisition
  /\ ttyShown = <<>>
  /\ sess = <<>>
  /\ subs = <<>>

\* the WebInputHandlers created so far, by index
Sessions == 1..Len(sess)

\* ------------------------------------------------------------ dispatcher
\* Scan in a dispatcher that runs the terminal read in a goroutine of its
\* own: while the read is pending the next line is read and answered
Scan_whileWaiting(l) ==
  \/ /\ pc = "scan" /\ nread < MaxLines
     /\ nread' = nread + 1 /\ line' = l
     /\ IF cancelled
        THEN /\ pc' = "done" /\ ret' = "context canceled"
             /\ out' = <<>> /\ acq' = NoAcquisition
             /\ UNCHANGED req
        ELSE /\ out' = handleLine(<<>>, l).out
             /\ pc' = handleLine(<<>>, l).pc
             /\ req' = handleLine(<<>>, l).req
             /\ acq' = [NoAcquisition EXCEPT !.backend = BackendAt(pc')]
             /\ ret' = ret
     /\ ttyShown' = <<>>
     /\ UNCHANGED <<sess, subs>>
     /\ UNCHANGED cancelled
  \/ /\ pc = "tty_read" /\ nread < MaxLines /\ ~cancelled
     /\ handleLine(<<>>, l).pc = "scan"
     /\ nread' = nread + 1 /\ line' = l
     /\ out' = handleLine(<<>>, l).out
     /\ UNCHANGED <<cancelled, pc, req, ret, acq, ttyShown, sess, subs>>

\* Scan without the select on ctx.Done() at the head of the loop body
Scan_noCancelCheck(l) ==
  /\ pc = "scan" /\ nread < MaxLines
  /\ nread' = nread + 1 /\ line' = l
  /\ out' = handleLine(<<>>, l).out
  /\ pc' = handleLine(<<>>, l).pc
  /\ req' = handleLine(<<>>, l).req
  /\ acq' = [NoAcquisition EXCEPT !.backend = BackendAt(pc')]
  /\ ttyShown' = <<>>
  /\ UNCHANGED <<ret, sess, subs, cancelled>>

\* scanner.Scan() delivers a line; the loop body runs up to the next Scan
\* or up to the backend call of a prompt request.
Scan(l) ==
  /\ pc = "scan" /\ nread < MaxLines
  /\ nread' = nread + 1 /\ line' = l
  /\ IF cancelled
     THEN /\ pc' = "done" /\ ret' = "context canceled"
          /\ out' = <<>> /\ acq' = NoAcquisition
          /\ UNCHANGED req
     ELSE /\ out' = handleLine(<<>>, l).out
          /\ pc' = handleLine(<<>>, l).pc
          /\ req' = handleLine(<<>>, l).req
          /\ acq' = [NoAcquisition EXCEPT !.backend = BackendAt(pc')]
          /\ ret' = ret
  /\ ttyShown' = <<>>
  /\ UNCHANGED <<sess, subs>>
  /\ UNCHANGED cancelled

\* scanner.Scan() returns false: end of input (Err() is nil), or a read
\* failure or a line longer than the scanner's buffer (Err() is not nil)
ScanStop(err) ==
  /\ pc = "scan"
  /\ pc' = "done" /\ ret' = err
  /\ UNCHANGED <<nread, line, out, cancelled, req, acq, ttyShown, sess, subs>>

\* the signal goroutine of serveCmd calls cancel()
Cancel ==
  /\ ~cancelled /\ ret = "running"
  /\ cancelled' = TRUE
  /\ UNCHANGED <<nread, line, out, pc, req, ret, acq, ttyShown, sess, subs>>

\* ------------------------------------------------------ terminal backend
\* the handler's answer once the backend returned (response, err)
Finish(response, err) ==
  /\ acq' = [acq EXCEPT !.response = response, !.err = err, !.done = TRUE]
  /\ out' = answer(out, req, response, err)
  /\ pc' = "scan"

\* os.OpenFile("/dev/tty"); on success the prompt and the cue are written
TtyOpen(ok) ==
  /\ pc = "tty_open"
  /\ IF ok
     THEN /\ ttyShown' = Append(ttyShown, PromptOf(req))
          /\ pc' = "tty_read"
          /\ UNCHANGED <<out, acq>>
     ELSE /\ Finish(<<>>, "failed to open /dev/tty")
          /\ UNCHANGED ttyShown
  /\ UNCHANGED <<nread, line, cancelled, req, ret, sess, subs>>

\* getUserInputFromTTY reporting the end of the terminal's input as a
\* read failure
ttyResult_eofIsError(t) ==
  CASE t.kind = "line" -> [response |-> TrimSpace(t.text), err |-> ""]
    [] OTHER           -> [response |-> <<>>, err |-> "failed to read from terminal"]

\* the outcome of scanner.Scan() on the terminal, as getUserInputFromTTY
\* turns it into (response, err)
ttyResult(t) ==
  CASE t.kind = "line" -> [response |-> TrimSpace(t.text), err |-> ""]
    [] t.kind = "err"  -> [response |-> <<>>, err |-> "failed to read from terminal"]
    [] OTHER           -> [response |-> <<>>, err |-> ""]

TtyOutcomes ==
  {[kind |-> "line", text |-> t] : t \in TtyTexts} \cup {[kind |-> "err"], [kind |-> "eof"]}

\* the answer read with the scanner of the protocol's stdin, which the
\* handlers are handed: the next protocol line is taken as the answer
TtyRead_fromStdin(t) ==
  /\ pc = "tty_read" /\ nread < MaxLines
  /\ nread' = nread + 1
  /\ \E l \in Lines : line' = l
  /\ Finish(ttyResult(t).response, ttyResult(t).err)
  /\ UNCHANGED <<cancelled, req, ret, ttyShown, sess, subs>>

TtyRead(t) ==
  /\ pc = "tty_read"
  /\ acq' = [acq EXCEPT !.response = ttyResult(t).response,
                        !.err = ttyResult(t).err, !.done = TRUE, !.tty = t.kind]
  /\ out' = answer(out, req, ttyResult(t).response, ttyResult(t).err)
  /\ pc' = "scan"
  /\ UNCHANGED <<nread, line, cancelled, req, ret, ttyShown, sess, subs>>

\* ------------------------------------------------------- browser backend
\* &WebInputHandler{...} with its http.Server: response is the channel of
\* capacity one, server the state of the listener.
\* sent, branch, sentAtSelect, returned and result record what happened to
\* the invocation: the texts put into response in order, the select case
\* taken and how many texts had been put by then, and what the call returned.
NewWebInputHandler(prompt) ==
  [prompt |-> prompt, response |-> <<>>,
   server |-> "new", inShutdown |-> FALSE,
   sent |-> <<>>, branch |-> "", sentAtSelect |-> 0,
   returned |-> FALSE, result |-> [response |-> <<>>, err |-> ""]]

\* the listener of handler h accepts connections
Accepting(h) == h.server = "listening"

\* getUserInputFromWeb leaving the wait to a goroutine: once the server is
\* started the handler returns to the loop without an answer
WebStart_detached(ok) ==
  /\ pc = "web_start"
  /\ IF ok
     THEN /\ sess' = Append(sess, NewWebInputHandler(PromptOf(req)))
          /\ pc' = "scan"
          /\ UNCHANGED <<out, acq>>
     ELSE /\ Finish(<<>>, "failed to find available port")
          /\ UNCHANGED sess
  /\ UNCHANGED <<nread, line, cancelled, req, ret, ttyShown, subs>>

\* net.Listen("tcp", ":0"): on failure the call returns at once; otherwise
\* the port is released, the handler is built and the goroutine running
\* ListenAndServe is started
WebStart(ok) ==
  /\ pc = "web_start"
  /\ IF ok
     THEN /\ sess' = Append(sess, NewWebInputHandler(PromptOf(req)))
          /\ pc' = "web_wait"
          /\ UNCHANGED <<out, acq>>
     ELSE /\ Finish(<<>>, "failed to find available port")
          /\ UNCHANGED sess
  /\ UNCHANGED <<nread, line, cancelled, req, ret, ttyShown, subs>>

\* handler.server.ListenAndServe() in the background goroutine: it binds
\* the released port, or fails to
ListenAndServe(h, bound) ==
  IF bound THEN [h EXCEPT !.server = "listening"]
  ELSE [h EXCEPT !.server = "failed"]

\* a call that watches the server goroutine and returns its failure to
\* bind as soon as it happens
ServerListen_reportsFailure(i, bound) ==
  /\ i \in 1..Len(sess) /\ sess[i].server = "new"
  /\ IF bound \/ pc # "web_wait"
     THEN /\ sess' = [sess EXCEPT ![i] = ListenAndServe(sess[i], bound)]
          /\ UNCHANGED <<out, pc, acq>>
     ELSE /\ sess' = [sess EXCEPT ![i] =
                       [ListenAndServe(sess[i], FALSE) EXCEPT
                          !.returned = TRUE,
                          !.result = [response |-> <<>>, err |-> "web server error"]]]
          /\ Finish(<<>>, "web server error")
  /\ UNCHANGED <<nread, line, cancelled, req, ret, ttyShown, subs>>

ServerListen(i, bound) ==
  /\ i \in 1..Len(sess) /\ sess[i].server = "new"
  /\ sess' = [sess EXCEPT ![i] = ListenAndServe(sess[i], bound)]
  /\ UNCHANGED <<nread, line, out, cancelled, pc, req, ret, acq, ttyShown, subs>>

\* the listener of handler i accepts a connection carrying a request to
\* /submit; its handler goroutine starts
Accept(i, m, text) ==
  /\ i \in 1..Len(sess) /\ Accepting(sess[i])
  /\ Len(subs) < MaxSubmit
  /\ subs' = Append(subs, [sess |-> i, method |-> m, text |-> text,
                           pc |-> "inflight", status |-> 0, body |-> ""])
  /\ UNCHANGED <<nread, line, out, cancelled, pc, req, ret, acq, ttyShown, sess>>

\* handleSubmit with a send that replaces the text waiting in the channel
\* instead of giving up when the channel is full
handleSubmit_overwrite(h, q) ==
  IF q.method # "POST"
  THEN [h |-> h, status |-> 405, body |-> "Method not allowed"]
  ELSE IF q.text = <<>>
  THEN [h |-> h, status |-> 400, body |-> "Response cannot be empty"]
  ELSE [h |-> [h EXCEPT !.response = <<q.text>>, !.sent = Append(@, q.text)],
        status |-> 200, body |-> "Thank you!"]

\* handleSubmit without the test for an empty response field
handleSubmit_acceptsEmpty(h, q) ==
  IF q.method # "POST"
  THEN [h |-> h, status |-> 405, body |-> "Method not allowed"]
  ELSE IF Len(h.response) < 1
  THEN [h |-> [h EXCEPT !.response = Append(@, q.text), !.sent = Append(@, q.text)],
        status |-> 200, body |-> "Thank you!"]
  ELSE [h |-> h, status |-> 400, body |-> "Response already submitted"]

\* WebInputHandler.handleSubmit on request q: the handler as it leaves it
\* and the status and body written to the browser
handleSubmit(h, q) ==
  IF q.method # "POST"
  THEN [h |-> h, status |-> 405, body |-> "Method not allowed"]
  ELSE IF q.text = <<>>
  THEN [h |-> h, status |-> 400, body |-> "Response cannot be empty"]
  ELSE IF Len(h.response) < 1
  THEN [h |-> [h EXCEPT !.response = Append(@, q.text), !.sent = Append(@, q.text)],
        status |-> 200, body |-> "Thank you!"]
  ELSE [h |-> h, status |-> 400, body |-> "Response already submitted"]

HandleSubmit(j) ==
  /\ j \in 1..Len(subs) /\ subs[j].pc = "inflight"
  /\ LET r == handleSubmit(sess[subs[j].sess], subs[j])
     IN  /\ sess' = [sess EXCEPT ![subs[j].sess] = r.h]
         /\ subs' = [subs EXCEPT ![j].pc = "done", ![j].status = r.status,
                                 ![j].body = r.body]
  /\ UNCHANGED <<nread, line, out, cancelled, pc, req, ret, acq, ttyShown>>

\* the delivery case returning the text without calling handler.shutdown()
WebReceive_noShutdown ==
  /\ pc = "web_wait" /\ sess[cur].response # <<>>
  /\ sess' = [sess EXCEPT ![cur].response = Tail(@),
                          ![cur].branch = "response",
                          ![cur].sentAtSelect = Len(sess[cur].sent),
                          ![cur].result = [response |-> Head(sess[cur].response),
                                           err |-> ""]]
  /\ pc' = "web_return"
  /\ UNCHANGED <<nread, line, out, cancelled, req, ret, acq, ttyShown, subs>>

\* case response := <-handler.response
WebReceive ==
  /\ pc = "web_wait" /\ sess[cur].response # <<>>
  /\ sess' = [sess EXCEPT ![cur].response = Tail(@),
                          ![cur].branch = "response",
                          ![cur].sentAtSelect = Len(sess[cur].sent),
                          ![cur].result = [response |-> Head(sess[cur].response),
                                           err |-> ""]]
  /\ pc' = "web_shutdown"
  /\ UNCHANGED <<nread, line, out, cancelled, req, ret, acq, ttyShown, subs>>

\* a select whose timer case goes back to waiting instead of giving up
WebTimeout_keepsWaiting ==
  /\ pc = "web_wait" /\ sess[cur].response = <<>>
  /\ UNCHANGED vars

\* case <-time.After(5 * time.Minute): the timer fires while the goroutine
\* is parked in the select, so the channel is empty at that moment
WebTimeout ==
  /\ pc = "web_wait" /\ sess[cur].response = <<>>
  /\ sess' = [sess EXCEPT ![cur].branch = "timeout",
                          ![cur].sentAtSelect = Len(sess[cur].sent),
                          ![cur].result = [response |-> <<>>,
                                           err |-> "timeout waiting for web input"]]
  /\ pc' = "web_shutdown"
  /\ UNCHANGED <<nread, line, out, cancelled, req, ret, acq, ttyShown, subs>>

\* shutdown that skips server.Shutdown (the nil test inverted)
shutdown_skipped(h) == h

\* WebInputHandler.shutdown: server.Shutdown closes the listener at once;
\* a server that has not bound yet never will, ListenAndServe returns
\* ErrServerClosed from then on
shutdown(h) ==
  [h EXCEPT !.inShutdown = TRUE,
            !.server = IF @ \in {"new", "listening"} THEN "closed" ELSE @]

WebShutdown ==
  /\ pc = "web_shutdown"
  /\ sess' = [sess EXCEPT ![cur] = shutdown(@)]
  /\ pc' = "web_return"
  /\ UNCHANGED <<nread, line, out, cancelled, req, ret, acq, ttyShown, subs>>

\* server.Shutdown returns, the connections being idle or the grace period
\* of one second over; getUserInputFromWeb returns and the handler answers
WebReturn ==
  /\ pc = "web_return"
  /\ sess' = [sess EXCEPT ![cur].returned = TRUE]
  /\ Finish(sess[cur].result.response, sess[cur].result.err)
  /\ UNCHANGED <<nread, line, cancelled, req, ret, ttyShown, subs>>

\* ------------------------------------------------------------------ spec
Next ==
  \/ \E l \in Lines : Scan(l)
  \/ \E err \in {"", "bufio.Scanner: token too long"} : ScanStop(err)
  \/ Cancel
  \/ \E ok \in BOOLEAN : TtyOpen(ok)
  \/ \E t \in TtyOutcomes : TtyRead(t)
  \/ \E ok \in BOOLEAN : WebStart(ok)
  \/ \E i \in 1..MaxLines, bound \in BOOLEAN : ServerListen(i, bound)
  \/ \E i \in 1..MaxLines, t \in WebTexts(Len(subs) + 1) : Accept(i, "POST", t)
  \/ \E j \in 1..MaxSubmit : HandleSubmit(j)
  \/ WebReceive
  \/ WebTimeout
  \/ WebShutdown
  \/ WebReturn

Spec == Init /\ [][Next]_vars

\* What the Go scheduler and the timers guarantee: a goroutine that is not
\* waiting for the outside world takes its next step, the timer of the
\* select fires if nothing was received, and Shutdown returns after its
\* grace period.  Nothing makes the agent send a line or close stdin, the
\* human type at the terminal, a browser connect, or a signal arrive.
Fairness ==
  /\ WF_vars(\E ok \in BOOLEAN : TtyOpen(ok))
  /\ WF_vars(\E ok \in BOOLEAN : WebStart(ok))
  /\ \A i \in 1..MaxLines : WF_vars(\E bound \in BOOLEAN : ServerListen(i, bound))
  /\ \A j \in 1..MaxSubmit : WF_vars(HandleSubmit(j))
  /\ WF_vars(WebReceive \/ WebTimeout)
  /\ WF_vars(WebShutdown)
  /\ WF_vars(WebReturn)

FairSpec == Init /\ [][Next]_vars /\ Fairness

\* ---------------------------------------------------------------- claims
\* the line delivered last was taken into the loop body (Start did not
\* return on ctx.Done() when it was delivered)
Handled == nread > 0 /\ ret # "context canceled"

\* the line decodes into an MCPRequest without error
WellFormed(l) == l.kind = "json" /\ ~UnmarshalRequest(l).err

\* the line has an id member
HasId(l) == l.kind = "json" /\ l.id.t # "absent"

\* the handling of the line delivered last is over
Idle == pc \in {"scan", "done"}

\* C1: every well-formed request line that carries an id, whatever its
\* method, has exactly one response line written for it once it is handled,
\* and that response carries the id of the request.
C1_OneResponseEchoingId ==
  (Handled /\ Idle /\ WellFormed(line) /\ HasId(line))
    => (Len(out) = 1 /\ out[1].id = line.id)

\* C2: a well-formed request line without an id member has no response
\* line written for it, whatever its method.
C2_NoResponseWithoutId ==
  (Handled /\ WellFormed(line) /\ ~HasId(line)) => out = <<>>

\* the line is not blank and json.Unmarshal rejects it
FailsToDecode(l) == ~IsBlank(l) /\ UnmarshalRequest(l).err

\* the line is a request the dispatcher answers without calling a backend
AnsweredAtOnce(l) ==
  /\ WellFormed(l)
  /\ UnmarshalRequest(l).req.Method # "notifications/initialized"
  /\ dispatch(<<>>, UnmarshalRequest(l).req).pc = "scan"

\* C3: a non-blank line that fails to decode gets exactly one error response
\* with code -32700 and leaves the loop running, at the next Scan; a request
\* delivered after it is answered.
C3_ParseErrorThenContinue ==
  /\ [](Handled /\ FailsToDecode(line) =>
          /\ Len(out) = 1
          /\ out[1].result = Absent /\ out[1].error.code = -32700)
  /\ [][(nread' = nread + 1 /\ ~cancelled /\ FailsToDecode(line')) =>
          (pc' = "scan" /\ ret' = "running")]_vars
  /\ [][(nread' = nread + 1 /\ ~cancelled /\ FailsToDecode(line)
           /\ AnsweredAtOnce(line')) =>
          (Len(out') = 1 /\ pc' = "scan")]_vars

\* the second line delivered failed to decode with its id stored, was
\* answered with -32700 under that id, and the loop is back at Scan
C3_Witness ==
  /\ nread = 2 /\ pc = "scan" /\ ret = "running"
  /\ FailsToDecode(line) /\ HasId(line)
  /\ Len(out) = 1 /\ out[1].error.code = -32700 /\ out[1].id = line.id

\* the submissions to session i that carried a non-empty text by POST and
\* whose handler has run
Answered(i) ==
  {j \in 1..Len(subs) : /\ subs[j].sess = i /\ subs[j].pc = "done"
                        /\ subs[j].method = "POST" /\ subs[j].text # <<>>}

\* C4: of any two submissions of non-empty text to one session exactly one
\* is answered 200 and the other 400 "Response already submitted"; no
\* session answers 200 twice.
C4_OneSubmissionAccepted ==
  \A i \in Sessions :
    /\ Cardinality({j \in Answered(i) : subs[j].status = 200}) <= 1
    /\ \A j, k \in Answered(i) :
         j # k => \E a \in {j, k}, b \in {j, k} :
                    /\ subs[a].status = 200
                    /\ subs[b].status = 400
                    /\ subs[b].body = "Response already submitted"

\* C5: a call of getUserInputFromWeb that returns a text returns the text
\* that was put first into the channel of its session; texts put later do
\* not change what it returns.
C5_FirstAcceptedReturned ==
  \A i \in Sessions :
    (sess[i].branch = "response" \/ (sess[i].returned /\ sess[i].result.err = ""))
      => /\ sess[i].sent # <<>>
         /\ sess[i].result = [response |-> sess[i].sent[1], err |-> ""]

\* the call returned its first text although a second, different text was
\* accepted into the channel of the same session
C5_Witness ==
  \E i \in Sessions :
    /\ sess[i].returned /\ sess[i].result.err = ""
    /\ Len(sess[i].sent) = 2 /\ sess[i].sent[2] # sess[i].sent[1]
    /\ sess[i].result.response = sess[i].sent[1]

\* C6: when no text had been submitted to a session by the time its wait
\* ended, getUserInputFromWeb returns the timeout failure and no text, and
\* once it has returned the listener of the session accepts no connection.
C6_TimeoutStopsListener ==
  \A i \in Sessions :
    (sess[i].returned /\ sess[i].sentAtSelect = 0)
      => /\ sess[i].result = [response |-> <<>>, err |-> "timeout waiting for web input"]
         /\ ~Accepting(sess[i])

\* the call timed out on a session whose listener had been serving: a
\* connection was accepted, yet no text came before the timeout
C6_Witness ==
  \E i \in Sessions :
    /\ sess[i].returned /\ sess[i].sentAtSelect = 0
    /\ sess[i].branch = "timeout" /\ sess[i].server = "closed"
    /\ \E j \in 1..Len(subs) : subs[j].sess = i

\* the terminal backend was called for the line delivered last and failed
TtyFailed == acq.done /\ acq.backend = "tty" /\ acq.err # ""

\* C7: a failure of the terminal backend during a legacy user_input request
\* is answered with the result {response: "", success: false} and no error
\* object; during a tools/call request it is answered with an error object
\* with code -32603.
C7_LegacyFailureIsResult ==
  /\ (TtyFailed /\ req.Method = "user_input") =>
       out = << [id |-> MarshalAny(req.ID),
                 result |-> [response |-> <<>>, success |-> FALSE],
                 error |-> Absent] >>
  /\ (TtyFailed /\ req.Method = "tools/call") =>
       /\ Len(out) = 1
       /\ out[1].result = Absent /\ out[1].error.code = -32603

\* the terminal opened but the read failed during a legacy request, and
\* the legacy answer was written
C7_Witness ==
  /\ TtyFailed /\ req.Method = "user_input"
  /\ acq.err = "failed to read from terminal" /\ ttyShown # <<>>
  /\ Len(out) = 1 /\ out[1].result.success = FALSE

\* the line is a tools/call request for user_input with a string prompt
IsPromptCall(l) ==
  /\ l.kind = "json" /\ l.method = Str("tools/call")
  /\ l.params.t = "obj" /\ l.params.name = Str("user_input")
  /\ l.params.arguments.t = "obj" /\ l.params.arguments.prompt.t = "str"

\* C8: a tools/call request for user_input with a string prompt is answered
\* either, when the backend returned a text, with a result holding one
\* content item of type "text" with that text and isError false, or, when
\* the backend failed, with an error object with code -32603; nothing else.
C8_ToolAnswerShapes ==
  (Handled /\ Idle /\ IsPromptCall(line)) =>
    /\ acq.done /\ Len(out) = 1
    /\ IF acq.err = ""
       THEN /\ out[1].error = Absent
            /\ out[1].result = [content |-> << [type |-> "text", text |-> acq.response] >>,
                                isError |-> FALSE]
       ELSE /\ out[1].result = Absent
            /\ out[1].error.code = -32603

\* a text typed into the web form came back as the single content item
C8_Witness ==
  /\ Handled /\ Idle /\ IsPromptCall(line)
  /\ acq.backend = "web" /\ acq.err = "" /\ acq.response = <<1>>
  /\ out[1].result.content[1].text = <<1>>

\* the line is a tools/call request naming user_input whose arguments have
\* no string under prompt
IsPromptlessCall(l) ==
  /\ l.kind = "json" /\ l.method = Str("tools/call")
  /\ l.params.t = "obj" /\ l.params.name = Str("user_input")
  /\ ~(l.params.arguments.t = "obj" /\ l.params.arguments.prompt.t = "str")

\* C9: a tools/call request naming user_input without a prompt, or with a
\* prompt that is not a string, is answered with an error with code -32602.
C9_MissingPromptInvalidParams ==
  (Handled /\ IsPromptlessCall(line)) =>
    /\ Idle /\ Len(out) = 1
    /\ out[1].result = Absent /\ out[1].error.code = -32602

\* a prompt of the wrong type was rejected by the type assertion
C9_Witness ==
  /\ Handled /\ IsPromptlessCall(line)
  /\ line.params.arguments.t = "obj" /\ line.params.arguments.prompt.t = "num"
  /\ Len(out) = 1 /\ out[1].error.message = "Missing or invalid prompt parameter"

KnownMethods ==
  {"initialize", "notifications/initialized", "capabilities/list", "tools/list",
   "tools/call", "user_input"}

\* C10: a decoded request whose method is none of the six known ones is
\* answered with the error -32601 "Method not found", wherever in the
\* session it comes.
C10_UnknownMethod ==
  (Handled /\ WellFormed(line) /\ req.Method \notin KnownMethods) =>
    /\ Idle /\ Len(out) = 1
    /\ out[1].result = Absent
    /\ out[1].error = ErrorObject(-32601, "Method not found")

\* an unknown method was rejected on the second line of the session
C10_Witness ==
  /\ Handled /\ WellFormed(line) /\ req.Method = "foo"
  /\ nread = 2
  /\ Len(out) = 1 /\ out[1].error.code = -32601

\* C11: every tools/list request, whatever was handled before it, is
\* answered with a catalog of exactly one tool, named user_input, whose
\* schema lists prompt as required.
C11_ToolsListCatalog ==
  (Handled /\ WellFormed(line) /\ req.Method = "tools/list") =>
    /\ Idle /\ Len(out) = 1 /\ out[1].error = Absent
    /\ Len(out[1].result.tools) = 1
    /\ out[1].result.tools[1].name = "user_input"
    /\ \E k \in 1..Len(out[1].result.tools[1].required) :
         out[1].result.tools[1].required[k] = "prompt"

\* tools/list came second, after a browser session had been opened by the
\* request before it, and was answered with the catalog
C11_Witness ==
  /\ Handled /\ WellFormed(line) /\ req.Method = "tools/list"
  /\ nread = 2 /\ sess # <<>>
  /\ Len(out) = 1 /\ out[1].result.tools[1].name = "user_input"

\* the id a response to line l carries
IdOf(l) == MarshalAny(UnmarshalRequest(l).req.ID)

\* C12: responses are written in the order the requests were read: every
\* response line is written while the request it answers is the one read
\* last, either in the step that read it or, appended, before the next
\* line is read; so the response to an earlier request is never written
\* after a later request has been read.
C12_ResponsesInReadOrder ==
  [][out' # out =>
       \/ /\ nread' = nread + 1
          /\ \A k \in 1..Len(out') : out'[k].id = IdOf(line')
       \/ /\ nread' = nread /\ line' = line
          /\ Len(out') = Len(out) + 1
          /\ SubSeq(out', 1, Len(out)) = out
          /\ out'[Len(out')].id = IdOf(line)]_vars

\* the second request, read after the first had been dealt with, waited
\* for the terminal and was answered under its own id after the wait
C12_Witness ==
  /\ nread = 2 /\ pc = "scan" /\ HasId(line)
  /\ acq.backend = "tty" /\ acq.done
  /\ Len(out) = 1 /\ out[1].id = line.id

\* C13: once the cancellation signal has fired the dispatch loop
\* eventually exits (Start returns), also when no further line and no end
\* of input arrive and whatever acquisition is in flight.
C13_CancelStopsLoop == cancelled ~> (ret # "running")

\* the line is a decodable request with method notifications/initialized
IsInitializedNotification(l) ==
  WellFormed(l) /\ UnmarshalRequest(l).req.Method = "notifications/initialized"

\* C14: a request with method notifications/initialized has no output line
\* written for it, with or without an id; the loop is back at Scan after
\* it, and a request delivered next is answered.
C14_InitializedIsSilent ==
  /\ [](Handled /\ IsInitializedNotification(line) =>
          (out = <<>> /\ pc \in {"scan", "done"}))
  /\ [][(nread' = nread + 1 /\ ~cancelled /\ IsInitializedNotification(line')) =>
          (out' = <<>> /\ pc' = "scan" /\ ret' = "running")]_vars
  /\ [][(nread' = nread + 1 /\ ~cancelled /\ IsInitializedNotification(line)
           /\ AnsweredAtOnce(line')) =>
          (Len(out') = 1 /\ pc' = "scan")]_vars

\* the notification came second and carried an id; nothing was written
\* and the loop is at Scan again
C14_Witness ==
  /\ nread = 2 /\ Handled /\ IsInitializedNotification(line) /\ HasId(line)
  /\ out = <<>> /\ pc = "scan" /\ ret = "running"

\* the line is a tools/call for user_input with a string prompt whose
\* method argument is the string "web"
WantsWeb(l) == IsPromptCall(l) /\ l.params.arguments.method = Str("web")

\* the line is a legacy user_input request whose params decode
IsLegacyPrompt(l) ==
  /\ WellFormed(l) /\ l.method = Str("user_input")
  /\ ~UnmarshalUserInputRequest(l.params).err

\* the line is a prompt request that passes the handler's checks
AcceptedPrompt(l) == IsPromptCall(l) \/ IsLegacyPrompt(l)

TtyPlaces == {"tty_open", "tty_read"}

WebPlaces == {"web_start", "web_wait", "web_shutdown", "web_return"}

IsToolCall(l) == WellFormed(l) /\ l.method = Str("tools/call")

\* params p decode into {name string, arguments object}: p is missing or
\* null, or an object whose name is missing, null or a string and whose
\* arguments are missing, null or an object
DecodesAsToolCall(p) ==
  \/ p.t \in {"absent", "null"}
  \/ /\ p.t = "obj"
     /\ p.name.t \in {"absent", "null", "str"}
     /\ p.arguments.t \in {"absent", "null", "obj"}

\* the tool named by params p ("" when no name is given)
ToolNameOf(p) == IF p.t = "obj" /\ p.name.t = "str" THEN p.name.s ELSE ""

\* C16: a tools/call whose params do not decode into {name, arguments} is
\* answered with an error with code -32602; one whose params decode and
\* name a tool other than user_input, or no tool, is answered with an
\* error with code -32601.
C16_UnknownToolAndBadParams ==
  (Handled /\ IsToolCall(line)) =>
    /\ ~DecodesAsToolCall(line.params) =>
         /\ Idle /\ Len(out) = 1
         /\ out[1].result = Absent /\ out[1].error.code = -32602
    /\ (DecodesAsToolCall(line.params) /\ ToolNameOf(line.params) # "user_input") =>
         /\ Idle /\ Len(out) = 1
         /\ out[1].result = Absent /\ out[1].error.code = -32601

\* a tools/call whose params are an object without a name was answered
\* "Unknown tool"
C16_Witness ==
  /\ Handled /\ IsToolCall(line)
  /\ line.params.t = "obj" /\ line.params.name = Absent
  /\ Len(out) = 1 /\ out[1].error = ErrorObject(-32601, "Unknown tool")

\* the submissions to session i by POST with an empty text whose handler
\* has run
Rejected(i) ==
  {j \in 1..Len(subs) : /\ subs[j].sess = i /\ subs[j].pc = "done"
                        /\ subs[j].method = "POST" /\ subs[j].text = <<>>}

\* C17: a POST to /submit with an empty text is answered 400 and leaves the
\* session as it was (nothing is put into the channel, the listener keeps
\* accepting); a non-empty text submitted to the same session afterwards
\* is answered 200, and when it is there by the time the wait ends it is
\* what getUserInputFromWeb returns.
C17_EmptySubmissionRejected ==
  /\ [](\A i \in Sessions : \A j \in Rejected(i) :
          /\ subs[j].status = 400 /\ subs[j].body = "Response cannot be empty"
          /\ \A k \in 1..Len(sess[i].sent) : sess[i].sent[k] # <<>>
          /\ \A k \in Answered(i) :
               (k > j /\ Answered(i) = {k}) =>
                 /\ subs[k].status = 200
                 /\ (sess[i].returned /\ sess[i].sentAtSelect >= 1) =>
                      sess[i].result = [response |-> subs[k].text, err |-> ""])
  /\ [][\A j \in 1..MaxSubmit :
          (/\ j <= Len(subs) /\ subs[j].pc = "inflight" /\ subs'[j].pc = "done"
           /\ subs[j].method = "POST" /\ subs[j].text = <<>>) => sess' = sess]_vars

\* an empty submission was answered 400, then a text submitted to the same
\* session was answered 200 and returned by the call
C17_Witness ==
  \E i \in Sessions : \E j \in Rejected(i) : \E k \in Answered(i) :
    /\ k > j /\ subs[j].status = 400 /\ subs[k].status = 200
    /\ sess[i].returned /\ sess[i].result = [response |-> subs[k].text, err |-> ""]

\* the prompt acquisitions that have been started and have not returned
Outstanding ==
  (IF pc \in TtyPlaces THEN 1 ELSE 0)
    + Cardinality({i \in Sessions : ~sess[i].returned})
    + (IF pc = "web_start" THEN 1 ELSE 0)

\* C18: requests are handled one at a time: a line is read from the
\* transport only when the dispatcher is at Scan with no prompt acquisition
\* pending, and at every moment at most one acquisition is outstanding.
C18_OneAtATime ==
  /\ [](/\ Outstanding <= 1
        /\ Outstanding = 1 <=> pc \in TtyPlaces \cup WebPlaces
        /\ \A i \in Sessions : ~sess[i].returned => i = cur)
  /\ [][nread' # nread =>
          /\ pc = "scan" /\ Outstanding = 0
          /\ acq.backend # "none" => acq.done]_vars

\* the second request waits in the browser backend after the first one's
\* browser acquisition has returned: one acquisition is outstanding
C18_Witness ==
  /\ nread = 2 /\ pc = "web_wait" /\ Len(sess) = 2
  /\ sess[1].returned /\ ~sess[2].returned /\ Outstanding = 1

\* C19: a line whose read completes after the cancellation signal fired is
\* neither dispatched nor answered: Start returns ctx.Err() and nothing is
\* written, no backend is entered; and the signal does not abort a terminal
\* read in flight: the read ends only with its own outcome, which is
\* answered.
C19_NoNewMessageAfterCancel ==
  /\ [][(nread' = nread + 1 /\ cancelled) =>
          /\ out' = <<>> /\ pc' = "done" /\ ret' = "context canceled"
          /\ acq' = NoAcquisition /\ ttyShown' = <<>> /\ sess' = sess]_vars
  /\ [](ret = "context canceled" => (out = <<>> /\ pc = "done" /\ ~acq.done))
  /\ [][(cancelled' /\ ~cancelled) =>
          (pc' = pc /\ out' = out /\ acq' = acq /\ ret' = ret)]_vars
  /\ [][(pc = "tty_read" /\ pc' # pc) =>
          (pc' = "scan" /\ acq'.done /\ Len(out') = Len(out) + 1)]_vars

\* the signal has fired while the terminal read is in flight, and the read
\* is still waiting for the human
C19_Witness ==
  /\ cancelled /\ pc = "tty_read" /\ ret = "running"
  /\ acq.backend = "tty" /\ ~acq.done /\ ttyShown # <<>>

\* C20: every call of getUserInputFromWeb eventually returns, whether or
\* not anybody submits and whether or not the handlers of accepted
\* requests have finished; a call that got as far as the wait returns
\* either the text it received or the timeout failure.
C20_WebAcquireReturns ==
  /\ (pc \in WebPlaces) ~> (pc = "scan" /\ acq.backend = "web" /\ acq.done)
  /\ [](\A i \in Sessions : sess[i].returned =>
          \/ sess[i].branch = "response" /\ sess[i].result.err = ""
          \/ /\ sess[i].branch = "timeout"
             /\ sess[i].result = [response |-> <<>>,
                                   err |-> "timeout waiting for web input"])

\* the call has returned the timeout failure while the handler of a
\* request accepted by its listener had not finished
C20_Witness ==
  \E i \in Sessions :
    /\ sess[i].returned /\ sess[i].branch = "timeout"
    /\ acq.backend = "web" /\ acq.done /\ acq.err = "timeout waiting for web input"
    /\ \E j \in 1..Len(subs) : subs[j].sess = i /\ subs[j].pc = "inflight"

\* the sessions whose listener accepts connections
Live == {i \in Sessions : Accepting(sess[i])}

\* C21: at most one browser session listener is live at any time: a
\* listener is live only during the call that created it, it is shut down
\* before that call returns on the delivery branch as on the timeout
\* branch, and none is live when a line is read; every call creates a
\* session of its own and a connection is only ever accepted by the
\* session of the call in progress.
C21_OneListenerLive ==
  /\ [](/\ Cardinality(Live) <= 1
        /\ \A i \in Live : i = cur /\ pc \in {"web_wait", "web_shutdown"}
        /\ \A i \in Sessions : sess[i].returned =>
             (~Accepting(sess[i]) /\ sess[i].inShutdown
              /\ sess[i].branch \in {"response", "timeout"})
        /\ pc \in {"scan", "done", "tty_open", "tty_read", "web_start"} => Live = {})
  /\ [][nread' # nread => Live = {}]_vars
  /\ [][Len(subs') # Len(subs) =>
          /\ Len(subs') = Len(subs) + 1
          /\ subs'[Len(subs')].sess = cur /\ ~sess[cur].returned]_vars

\* the second browser session is listening while the first, which
\* delivered a text, is closed
C21_Witness ==
  /\ Len(sess) = 2 /\ nread = 2 /\ Live = {2}
  /\ sess[1].returned /\ sess[1].branch = "response" /\ sess[1].server = "closed"

\* C22: every response line written holds exactly one of a result and an
\* error object, never both and never neither; so do the legacy failure
\* answer and the answers carrying an empty text.
C22_ResultXorError ==
  \A k \in 1..Len(out) : (out[k].result # Absent) # (out[k].error # Absent)

\* the legacy failure answer: a result with success false and no error
C22_Witness ==
  /\ Len(out) = 1 /\ req.Method = "user_input" /\ acq.done /\ acq.err # ""
  /\ out[1].result = UserInputResult(<<>>, FALSE) /\ out[1].error = Absent

\* the line delivered last was handled and ended in a request-level
\* failure: it was blank, it was answered with an error object, or the
\* prompt acquisition it started failed
FailedRequest ==
  /\ Handled /\ Idle
  /\ \/ IsBlank(line)
     \/ Len(out) = 1 /\ out[1].error # Absent
     \/ acq.done /\ acq.err # ""

\* C23: no request-level failure ends the dispatch loop: after it the
\* dispatcher is at Scan again; Start returns only on end of input, and
\* then without an error, or on cancellation.
C23_OnlyEofOrCancelEndsLoop ==
  /\ FailedRequest => (pc = "scan" \/ ret \in {"", "context canceled"})
  /\ ret # "running" => ret \in {"", "context canceled"}

C25_TtyEofIsEmptyAnswer ==
  /\ (acq.done /\ acq.tty = "eof") =>
       /\ acq.backend = "tty" /\ acq.response = <<>> /\ acq.err = ""
       /\ Len(out) = 1 /\ out[1].error = Absent
       /\ out[1].result =
            IF req.Method = "tools/call"
            THEN [content |-> << [type |-> "text", text |-> <<>>] >>, isError |-> FALSE]
            ELSE [response |-> <<>>, success |-> TRUE]
  /\ (acq.done /\ acq.backend = "tty" /\ Len(out) = 1
        /\ (out[1].error # Absent \/ out[1].result = UserInputResult(<<>>, FALSE))) =>
       \/ acq.tty = "none" /\ acq.err = "failed to open /dev/tty"
       \/ acq.tty = "err" /\ acq.err = "failed to read from terminal"

\* the terminal was at end of input during a legacy request, which was
\* answered {response: "", success: true}
C25_Witness ==
  /\ acq.done /\ acq.tty = "eof" /\ req.Method = "user_input"
  /\ ttyShown # <<>>
  /\ out[1].result = [response |-> <<>>, success |-> TRUE]

\* C26: a submission answered 200 is never lost: when a call of
\* getUserInputFromWeb has returned the timeout failure, no submission to
\* its session has been answered 200, however the submission handlers
\* interleave with the timeout and the shutdown of the listener.
C26_AcknowledgedNeverLost ==
  \A i \in Sessions :
    (sess[i].returned /\ sess[i].result.err = "timeout waiting for web input") =>
      \A j \in 1..Len(subs) : subs[j].sess = i => subs[j].status # 200

\* the sessions whose server failed to bind its port
BindFailed == {i \in Sessions : sess[i].server = "failed"}

\* C27: when the server of a browser session fails to bind its port the
\* call does not return or answer at that point; no submission ever reaches
\* the session, the call leaves the wait only through the timeout case and
\* returns the timeout failure, and a tools/call is then answered with an
\* error with code -32603.
C27_BindFailureWaitsForTimeout ==
  /\ [](\A i \in BindFailed :
          /\ sess[i].sent = <<>> /\ sess[i].response = <<>>
          /\ \A j \in 1..Len(subs) : subs[j].sess # i
          /\ sess[i].branch \in {"", "timeout"}
          /\ sess[i].returned =>
               /\ sess[i].branch = "timeout"
               /\ sess[i].result = [response |-> <<>>,
                                     err |-> "timeout waiting for web input"])
  /\ [][\A i \in 1..MaxLines :
          (i <= Len(sess) /\ i <= Len(sess') /\ sess'[i].server = "failed"
           /\ sess[i].server # "failed") =>
            (pc' = pc /\ out' = out /\ acq' = acq /\ ~sess'[i].returned)]_vars
  /\ [][\A i \in 1..MaxLines :
          (i \in BindFailed /\ ~sess[i].returned /\ sess'[i].returned) =>
            /\ acq'.done /\ acq'.err = "timeout waiting for web input"
            /\ Len(out') = 1 /\ out'[1].result = Absent
            /\ out'[1].error.code = -32603]_vars

\* the server failed to bind while the call was waiting; the call waited
\* for the timeout and the tools/call was answered with -32603
C27_Witness ==
  \E i \in BindFailed :
    /\ i = cur /\ sess[i].returned /\ sess[i].branch = "timeout"
    /\ acq.backend = "web" /\ acq.done /\ pc = "scan"
    /\ acq.err = "timeout waiting for web input"
    /\ Len(out) = 1 /\ out[1].error.code = -32603

\* the line delivered last was answered with one of the validation errors
RejectedRequest ==
  /\ Handled /\ Len(out) >= 1
  /\ out[1].error # Absent
  /\ out[1].error.code \in {-32700, -32601, -32602}

\* C28: a request rejected during validation (-32700, -32601 for an
\* unknown method or tool, -32602 for undecodable params or a missing or
\* non-string prompt) starts no prompt acquisition: no backend is entered
\* for it, the terminal is not opened and shows no prompt, and no session
\* or listener is started while it is the current request.
C28_RejectedStartsNoAcquisition ==
  /\ [](RejectedRequest =>
          /\ Len(out) = 1 /\ Idle
          /\ acq.backend = "none" /\ ~acq.done /\ acq.tty = "none"
          /\ ttyShown = <<>>
          /\ \A i \in Sessions : sess[i].returned)
  /\ [][RejectedRequest =>
          /\ Len(sess') = Len(sess)
          /\ \A i \in Sessions : Accepting(sess'[i]) => Accepting(sess[i])
          /\ ttyShown' = <<>>]_vars
  /\ [][(nread' = nread + 1 /\ ~cancelled /\ Len(out') >= 1
           /\ out'[1].error # Absent) =>
          (pc' = "scan" /\ acq' = NoAcquisition)]_vars

\* a tools/call asking for the browser without a prompt was rejected
\* with -32602: no session exists and nothing was shown at the terminal
C28_Witness ==
  /\ RejectedRequest /\ IsPromptlessCall(line)
  /\ line.params.arguments.t = "obj" /\ line.params.arguments.method = Str("web")
  /\ out[1].error.code = -32602
  /\ sess = <<>> /\ ttyShown = <<>> /\ acq = NoAcquisition

====
